---- MODULE Spec2Model ----
(***************************************************************************)
(* State-machine model of spotizerr-auth.py: main(), the server-credential *)
(* bootstrap check_and_configure_api_creds() and the capture phase         *)
(* get_spotify_session_and_wait_for_credentials().                         *)
(*                                                                         *)
(* pc is the position of the single thread.  A pc that names a prompt      *)
(* means the prompt has been printed and input() is blocked; "get", "put"  *)
(* and "post" mean the HTTP request has been sent and the call is blocked  *)
(* on the response.  A KeyboardInterrupt can be delivered at every         *)
(* blocking point and at every step between the creation of the responder  *)
(* and its close().  An error branch that only logs and then calls         *)
(* sys.exit is one step.                                                   *)
(***************************************************************************)
EXTENDS Integers, Sequences, FiniteSets, TLC

VARIABLES
    pc,                 \* position of the program
    exitCode,           \* process exit status, meaningful once pc = "exited"
    base_url,           \* main: base_url after defaulting and prefixing
    getResp,            \* response of requests.get (history of the call)
    data,               \* check_and_configure_api_creds: response.json()
    configure_now,      \* lower-cased answer to "configure them now?"
    new_client_id,
    new_client_secret,
    putLog,             \* PUT requests sent, as the server sees them
    putResp,            \* response of requests.put
    credsOk,            \* return value of check_and_configure_api_creds
    account_name,
    region_raw,         \* what input() returned at the region prompt
    region,             \* main: region, i.e. region_raw.upper()
    file0,              \* credentials.json when the program was started
    file,               \* credentials.json now
    overwrite,          \* lower-cased answer to the overwrite prompt
    zs,                 \* the ZeroconfServer: "none", "open", "closed"
    pending,            \* exception in flight while a finally block runs
    credentials_data,   \* json.load(f)
    postLog,            \* POST requests sent
    postResp,           \* response of requests.post
    cleanup,            \* lower-cased answer to the delete prompt
    prompts,            \* the prompts printed so far, in order
    interrupts,         \* positions at which a KeyboardInterrupt was delivered
    fsErrors            \* filesystem operations on credentials.json that failed

vars == <<pc, exitCode, base_url, getResp, data, configure_now, new_client_id,
          new_client_secret, putLog, putResp, credsOk, account_name, region_raw,
          region, file0, file, overwrite, zs, pending, credentials_data,
          postLog, postResp, cleanup, prompts, interrupts, fsErrors>>

(***************************************************************************)
(* Bounds and input sets                                                   *)
(***************************************************************************)
MaxRegionLen == 2

Unbound == "<unbound>"

\* a lower-case letter, an upper-case letter, a digit
Chars == {"u", "S", "1"}

RECURSIVE SeqsUpTo(_, _)
SeqsUpTo(S, n) ==
    IF n = 0 THEN {<<>>}
    ELSE LET shorter == SeqsUpTo(S, n - 1)
         IN  shorter \cup {Append(s, c) : s \in {t \in shorter : Len(t) = n - 1}, c \in S}

RegionInputs == SeqsUpTo(Chars, MaxRegionLen)

\* a URL is a sequence of tokens: scheme, host, trailing slash
BaseUrlInputs == {<<>>, <<"example.com:7171">>, <<"https://", "example.com", "/">>}

Answers == {"y", "Y", "n", ""}

ClientIdInputs == {"", "id"}
ClientSecretInputs == {"", "secret"}
AccountNameInputs == {"", "acct"}

\* bodies of the GET response: a JSON object with any of the two keys
ConfigKeys == {"client_id", "client_secret"}
ConfigBodies == UNION {[ks -> {"", "srv"}] : ks \in SUBSET ConfigKeys}

NoResponse == [kind |-> "none", status |-> 0]
ConnectionError == [kind |-> "error", status |-> 0]
HttpResponse(s) == [kind |-> "response", status |-> s]

GetResponses == {ConnectionError} \cup {HttpResponse(s) : s \in {200, 404}}
PutResponses == {ConnectionError} \cup {HttpResponse(s) : s \in {200, 304, 404, 500}}
PostResponses == {ConnectionError} \cup {HttpResponse(s) : s \in {200, 304, 404}}

\* contents of credentials.json
StartFiles == {"absent", "empty", "garbage", "{A}"}
CapturedFiles == {"{A}", "{B}"}

PromptPcs == {"base_url", "configure_now", "new_client_id", "new_client_secret",
              "account_name", "region", "overwrite", "cleanup"}

(***************************************************************************)
(* Library functions the program calls                                     *)
(***************************************************************************)
\* str.lower() on the answers
StrLower(s) == IF s = "Y" THEN "y" ELSE IF s = "N" THEN "n" ELSE s

UpperChar(c) == IF c = "u" THEN "U" ELSE IF c = "s" THEN "S" ELSE c

StrUpper_identity(s) == s

\* str.upper() on a sequence of characters
StrUpper(s) == [i \in 1..Len(s) |-> UpperChar(s[i])]

\* Response.raise_for_status(): raises HTTPError for 4xx and 5xx only
RaisesForStatus_5xx(status) == 500 <= status /\ status < 600

RaisesForStatus(status) == 400 <= status /\ status < 600

\* pathlib.Path.exists()
FileExists_always(f) == TRUE

FileExists(f) == f # "absent"

\* is_file() and st_size > 0
FileNonEmpty(f) == f \notin {"absent", "empty"}

\* json.load: ok is FALSE where it raises JSONDecodeError
JsonLoad(f) ==
    IF f = "{A}" THEN [ok |-> TRUE, value |-> [stored |-> "A"]]
    ELSE IF f = "{B}" THEN [ok |-> TRUE, value |-> [stored |-> "B"]]
    ELSE [ok |-> FALSE, value |-> [stored |-> ""]]

\* dict.get(k) being truthy: present and not the empty string
Truthy(d, k) == k \in DOMAIN d /\ d[k] # ""

(***************************************************************************)
(* Helpers of the program                                                  *)
(***************************************************************************)
\* base_url after the default and the scheme prefix
NormaliseBaseUrl(inp) ==
    LET b == IF inp = <<>> THEN <<"http://", "localhost:7171">> ELSE inp
    IN  IF Head(b) \in {"http://", "https://"} THEN b ELSE <<"http://">> \o b

\* base_url.rstrip('/')
RStripSlash(u) ==
    IF Len(u) > 0 /\ u[Len(u)] = "/" THEN SubSeq(u, 1, Len(u) - 1) ELSE u

ApiConfigUrl(b) == RStripSlash(b) \o <<"/api/credentials/spotify_api_config">>

AccountUrl(b, name) == RStripSlash(b) \o <<"/api/credentials/spotify/", name>>

IsYes_notNo(ans) == ans # "n"

\* the comparison "answer == 'y'" of the three yes/no prompts
IsYes(ans) == ans = "y"

\* "if client_id and client_secret"
AlreadyConfigured(d) == Truthy(d, "client_id") /\ Truthy(d, "client_secret")

ValuesMissing_both(id, secret) == id = "" /\ secret = ""

\* "if not new_client_id or not new_client_secret"
ValuesMissing(id, secret) == id = "" \/ secret = ""

\* the PUT raising RequestException: no response, or raise_for_status raises
PutFails(r) == r.kind = "error" \/ RaisesForStatus(r.status)

PostFails_noRaise(r) == r.kind = "error"

\* the POST raising RequestException
PostFails(r) == r.kind = "error" \/ RaisesForStatus(r.status)

ExitCodeFor_noHandler(exc) == IF exc = "SystemExit(0)" THEN 0 ELSE 1

\* exit status for an exception that leaves main's outer try
ExitCodeFor(exc) ==
    IF exc = "KeyboardInterrupt" THEN 0
    ELSE IF exc = "SystemExit(1)" THEN 1
    ELSE 0

(***************************************************************************)
(* Initial state                                                           *)
(***************************************************************************)
Init ==
    /\ pc = "base_url"
    /\ exitCode = 0
    /\ base_url = <<>>
    /\ getResp = NoResponse
    /\ data = <<>>
    /\ configure_now = Unbound
    /\ new_client_id = Unbound
    /\ new_client_secret = Unbound
    /\ putLog = <<>>
    /\ putResp = NoResponse
    /\ credsOk = Unbound
    /\ account_name = Unbound
    /\ region_raw = <<Unbound>>
    /\ region = <<Unbound>>
    /\ file0 \in StartFiles
    /\ file = file0
    /\ overwrite = Unbound
    /\ zs = "none"
    /\ pending = "none"
    /\ credentials_data = [stored |-> ""]
    /\ postLog = <<>>
    /\ postResp = NoResponse
    /\ cleanup = Unbound
    /\ prompts = <<"base_url">>
    /\ interrupts = {}
    /\ fsErrors = {}

\* move to position p, printing its prompt when it is one
Goto(p) ==
    /\ pc' = p
    /\ prompts' = IF p \in PromptPcs THEN Append(prompts, p) ELSE prompts
    /\ UNCHANGED exitCode

\* the process ends with the exit status of exception exc
ExitWith(exc) ==
    /\ pc' = "exited"
    /\ exitCode' = ExitCodeFor(exc)
    /\ UNCHANGED prompts

(***************************************************************************)
(* main and check_and_configure_api_creds                                  *)
(***************************************************************************)
\* the base URL is entered; the bootstrap sends its GET
AskBaseUrl ==
    /\ pc = "base_url"
    /\ \E inp \in BaseUrlInputs : base_url' = NormaliseBaseUrl(inp)
    /\ Goto("get")
    /\ UNCHANGED <<getResp, data, configure_now, new_client_id, new_client_secret,
                   putLog, putResp, credsOk, account_name, region_raw, region,
                   file0, file, overwrite, zs, pending, credentials_data,
                   postLog, postResp, cleanup, interrupts, fsErrors>>

\* the GET returns
GetResponse ==
    /\ pc = "get"
    /\ \E r \in GetResponses, body \in ConfigBodies :
        /\ getResp' = r
        /\ IF r.kind = "error" \/ (r.status >= 400 /\ RaisesForStatus(r.status))
           THEN /\ credsOk' = "False"
                /\ ExitWith("SystemExit(1)")
                /\ UNCHANGED data
           ELSE /\ data' = body
                /\ IF AlreadyConfigured(body)
                   THEN credsOk' = "True" /\ Goto("account_name")
                   ELSE UNCHANGED credsOk /\ Goto("configure_now")
    /\ UNCHANGED <<base_url, configure_now, new_client_id, new_client_secret,
                   putLog, putResp, account_name, region_raw, region,
                   file0, file, overwrite, zs, pending, credentials_data,
                   postLog, postResp, cleanup, interrupts, fsErrors>>

AskConfigureNow ==
    /\ pc = "configure_now"
    /\ \E a \in Answers :
        /\ configure_now' = StrLower(a)
        /\ IF IsYes(StrLower(a))
           THEN UNCHANGED credsOk /\ Goto("new_client_id")
           ELSE credsOk' = "False" /\ ExitWith("SystemExit(1)")
    /\ UNCHANGED <<base_url, getResp, data, new_client_id, new_client_secret,
                   putLog, putResp, account_name, region_raw, region,
                   file0, file, overwrite, zs, pending, credentials_data,
                   postLog, postResp, cleanup, interrupts, fsErrors>>

AskClientId ==
    /\ pc = "new_client_id"
    /\ \E v \in ClientIdInputs : new_client_id' = v
    /\ Goto("new_client_secret")
    /\ UNCHANGED <<base_url, getResp, data, configure_now, new_client_secret,
                   putLog, putResp, credsOk, account_name, region_raw, region,
                   file0, file, overwrite, zs, pending, credentials_data,
                   postLog, postResp, cleanup, interrupts, fsErrors>>

\* the secret is entered; both values are checked and the PUT is sent
AskClientSecret ==
    /\ pc = "new_client_secret"
    /\ \E v \in ClientSecretInputs :
        /\ new_client_secret' = v
        /\ IF ValuesMissing(new_client_id, v)
           THEN /\ credsOk' = "False"
                /\ ExitWith("SystemExit(1)")
                /\ UNCHANGED putLog
           ELSE /\ putLog' = Append(putLog,
                        [url |-> ApiConfigUrl(base_url),
                         payload |-> [client_id |-> new_client_id,
                                      client_secret |-> v]])
                /\ Goto("put")
                /\ UNCHANGED credsOk
    /\ UNCHANGED <<base_url, getResp, data, configure_now, new_client_id,
                   putResp, account_name, region_raw, region,
                   file0, file, overwrite, zs, pending, credentials_data,
                   postLog, postResp, cleanup, interrupts, fsErrors>>

\* the PUT returns
PutResponse ==
    /\ pc = "put"
    /\ \E r \in PutResponses :
        /\ putResp' = r
        /\ IF PutFails(r)
           THEN credsOk' = "False" /\ ExitWith("SystemExit(1)")
           ELSE credsOk' = "True" /\ Goto("account_name")
    /\ UNCHANGED <<base_url, getResp, data, configure_now, new_client_id,
                   new_client_secret, putLog, account_name, region_raw, region,
                   file0, file, overwrite, zs, pending, credentials_data,
                   postLog, postResp, cleanup, interrupts, fsErrors>>

AskAccountName ==
    /\ pc = "account_name"
    /\ \E n \in AccountNameInputs :
        /\ account_name' = n
        /\ IF n = "" THEN ExitWith("SystemExit(1)") ELSE Goto("region")
    /\ UNCHANGED <<base_url, getResp, data, configure_now, new_client_id,
                   new_client_secret, putLog, putResp, credsOk, region_raw, region,
                   file0, file, overwrite, zs, pending, credentials_data,
                   postLog, postResp, cleanup, interrupts, fsErrors>>

AskRegion_noEmptyCheck ==
    /\ pc = "region"
    /\ \E r \in RegionInputs :
        /\ region_raw' = r
        /\ region' = StrUpper(r)
        /\ IF FileExists(file) THEN Goto("overwrite") ELSE Goto("capture_entry")
    /\ UNCHANGED <<base_url, getResp, data, configure_now, new_client_id,
                   new_client_secret, putLog, putResp, credsOk, account_name,
                   file0, file, overwrite, zs, pending, credentials_data,
                   postLog, postResp, cleanup, interrupts, fsErrors>>

\* the region is entered and upper-cased; then the credential file is looked for
AskRegion ==
    /\ pc = "region"
    /\ \E r \in RegionInputs :
        /\ region_raw' = r
        /\ region' = StrUpper(r)
        /\ IF StrUpper(r) = <<>>
           THEN ExitWith("SystemExit(1)")
           ELSE IF FileExists(file) THEN Goto("overwrite") ELSE Goto("capture_entry")
    /\ UNCHANGED <<base_url, getResp, data, configure_now, new_client_id,
                   new_client_secret, putLog, putResp, credsOk, account_name,
                   file0, file, overwrite, zs, pending, credentials_data,
                   postLog, postResp, cleanup, interrupts, fsErrors>>

AskOverwrite ==
    /\ pc = "overwrite"
    /\ \E a \in Answers :
        /\ overwrite' = StrLower(a)
        /\ IF IsYes(StrLower(a)) THEN Goto("capture_entry") ELSE Goto("read")
    /\ UNCHANGED <<base_url, getResp, data, configure_now, new_client_id,
                   new_client_secret, putLog, putResp, credsOk, account_name,
                   region_raw, region, file0, file, zs, pending, credentials_data,
                   postLog, postResp, cleanup, interrupts, fsErrors>>

(***************************************************************************)
(* get_spotify_session_and_wait_for_credentials                            *)
(***************************************************************************)
CaptureEntry_ignoreUnlinkError ==
    /\ pc = "capture_entry"
    /\ IF FileExists(file)
       THEN \E unlinked \in BOOLEAN :
                IF unlinked
                THEN file' = "absent" /\ UNCHANGED fsErrors
                ELSE fsErrors' = fsErrors \cup {"stale_unlink"} /\ UNCHANGED file
       ELSE UNCHANGED <<file, fsErrors>>
    /\ zs' = "open"
    /\ Goto("announce")
    /\ UNCHANGED <<base_url, getResp, data, configure_now, new_client_id,
                   new_client_secret, putLog, putResp, credsOk, account_name,
                   region_raw, region, file0, overwrite, pending, credentials_data,
                   postLog, postResp, cleanup, interrupts>>

\* a stale file is removed, then the responder is created
CaptureEntry ==
    /\ pc = "capture_entry"
    /\ IF FileExists(file)
       THEN \E unlinked \in BOOLEAN :
                IF unlinked
                THEN /\ file' = "absent"
                     /\ zs' = "open"
                     /\ Goto("announce")
                     /\ UNCHANGED fsErrors
                ELSE /\ fsErrors' = fsErrors \cup {"stale_unlink"}
                     /\ ExitWith("SystemExit(1)")
                     /\ UNCHANGED <<file, zs>>
       ELSE /\ zs' = "open"
            /\ Goto("announce")
            /\ UNCHANGED <<file, fsErrors>>
    /\ UNCHANGED <<base_url, getResp, data, configure_now, new_client_id,
                   new_client_secret, putLog, putResp, credsOk, account_name,
                   region_raw, region, file0, overwrite, pending, credentials_data,
                   postLog, postResp, cleanup, interrupts>>

\* the device name is looked up and the instructions are logged
Announce ==
    /\ pc = "announce"
    /\ Goto("wait")
    /\ UNCHANGED <<base_url, getResp, data, configure_now, new_client_id,
                   new_client_secret, putLog, putResp, credsOk, account_name,
                   region_raw, region, file0, file, overwrite, zs, pending,
                   credentials_data, postLog, postResp, cleanup, interrupts, fsErrors>>

\* one round of the wait loop: sleep, then look at the file
Poll ==
    /\ pc = "wait"
    /\ IF FileNonEmpty(file) THEN Goto("closing") ELSE UNCHANGED <<pc, prompts, exitCode>>
    /\ UNCHANGED <<base_url, getResp, data, configure_now, new_client_id,
                   new_client_secret, putLog, putResp, credsOk, account_name,
                   region_raw, region, file0, file, overwrite, zs, pending,
                   credentials_data, postLog, postResp, cleanup, interrupts, fsErrors>>

\* the finally block: zs.close(), then the pending exception goes on
CloseResponder ==
    /\ pc = "closing"
    /\ zs' = "closed"
    /\ IF pending = "none" THEN Goto("read") ELSE ExitWith(pending)
    /\ UNCHANGED <<base_url, getResp, data, configure_now, new_client_id,
                   new_client_secret, putLog, putResp, credsOk, account_name,
                   region_raw, region, file0, file, overwrite, pending,
                   credentials_data, postLog, postResp, cleanup, interrupts, fsErrors>>

\* the responder's session handler creates the file and then writes it
LibraryStoresCredentials ==
    /\ zs = "open"
    /\ pc \in {"announce", "wait", "closing"}
    /\ \/ file = "absent" /\ file' = "empty"
       \/ file = "empty" /\ \E t \in CapturedFiles : file' = t
    /\ UNCHANGED <<pc, exitCode, prompts, base_url, getResp, data, configure_now,
                   new_client_id, new_client_secret, putLog, putResp, credsOk,
                   account_name, region_raw, region, file0, overwrite, zs, pending,
                   credentials_data, postLog, postResp, cleanup, interrupts, fsErrors>>

(***************************************************************************)
(* main: registration                                                      *)
(***************************************************************************)
\* the file is checked, read and parsed; the POST is sent
ReadCredentials ==
    /\ pc = "read"
    /\ IF ~FileExists(file)
       THEN /\ ExitWith("SystemExit(1)")
            /\ UNCHANGED <<credentials_data, postLog, fsErrors>>
       ELSE IF ~JsonLoad(file).ok
       THEN /\ fsErrors' = fsErrors \cup {"read"}
            /\ ExitWith("SystemExit(1)")
            /\ UNCHANGED <<credentials_data, postLog>>
       ELSE /\ credentials_data' = JsonLoad(file).value
            /\ postLog' = Append(postLog,
                    [url |-> AccountUrl(base_url, account_name),
                     payload |-> [region |-> region,
                                  blob_content |-> JsonLoad(file).value]])
            /\ Goto("post")
            /\ UNCHANGED fsErrors
    /\ UNCHANGED <<base_url, getResp, data, configure_now, new_client_id,
                   new_client_secret, putLog, putResp, credsOk, account_name,
                   region_raw, region, file0, file, overwrite, zs, pending,
                   postResp, cleanup, interrupts>>

\* the POST returns; on RequestException the handler calls sys.exit(1);
\* either way the finally block prints the delete prompt
PostResponse ==
    /\ pc = "post"
    /\ \E r \in PostResponses :
        /\ postResp' = r
        /\ pending' = IF PostFails(r) THEN "SystemExit(1)" ELSE "none"
    /\ Goto("cleanup")
    /\ UNCHANGED <<base_url, getResp, data, configure_now, new_client_id,
                   new_client_secret, putLog, putResp, credsOk, account_name,
                   region_raw, region, file0, file, overwrite, zs,
                   credentials_data, postLog, cleanup, interrupts, fsErrors>>

\* the delete prompt is answered; then the pending exception goes on, or
\* sys.exit(0) is reached
AskCleanup ==
    /\ pc = "cleanup"
    /\ \E a \in Answers, unlinked \in BOOLEAN :
        /\ cleanup' = StrLower(a)
        /\ IF IsYes(StrLower(a)) /\ FileExists(file)
           THEN IF unlinked
                THEN file' = "absent" /\ UNCHANGED fsErrors
                ELSE fsErrors' = fsErrors \cup {"final_unlink"} /\ UNCHANGED file
           ELSE UNCHANGED <<file, fsErrors>>
    /\ ExitWith(IF pending = "none" THEN "SystemExit(0)" ELSE pending)
    /\ UNCHANGED <<base_url, getResp, data, configure_now, new_client_id,
                   new_client_secret, putLog, putResp, credsOk, account_name,
                   region_raw, region, file0, overwrite, zs, pending,
                   credentials_data, postLog, postResp, interrupts>>

(***************************************************************************)
(* KeyboardInterrupt                                                       *)
(***************************************************************************)
\* positions where the interrupt goes straight to main's handler
DirectInterruptPcs ==
    (PromptPcs \cup {"get", "put", "capture_entry", "announce", "closing"})

\* an interrupt outside the two inner try blocks, or inside a finally block
Interrupt ==
    /\ pc \in DirectInterruptPcs
    /\ interrupts' = interrupts \cup {pc}
    /\ pending' = IF pc \in {"closing", "cleanup"} THEN "KeyboardInterrupt" ELSE pending
    /\ ExitWith("KeyboardInterrupt")
    /\ UNCHANGED <<base_url, getResp, data, configure_now, new_client_id,
                   new_client_secret, putLog, putResp, credsOk, account_name,
                   region_raw, region, file0, file, overwrite, zs,
                   credentials_data, postLog, postResp, cleanup, fsErrors>>

\* an interrupt in the wait loop: the finally block runs
InterruptWait ==
    /\ pc = "wait"
    /\ interrupts' = interrupts \cup {pc}
    /\ pending' = "KeyboardInterrupt"
    /\ Goto("closing")
    /\ UNCHANGED <<base_url, getResp, data, configure_now, new_client_id,
                   new_client_secret, putLog, putResp, credsOk, account_name,
                   region_raw, region, file0, file, overwrite, zs,
                   credentials_data, postLog, postResp, cleanup, fsErrors>>

\* an interrupt during the POST: the finally block prints the delete prompt
InterruptPost ==
    /\ pc = "post"
    /\ interrupts' = interrupts \cup {pc}
    /\ pending' = "KeyboardInterrupt"
    /\ Goto("cleanup")
    /\ UNCHANGED <<base_url, getResp, data, configure_now, new_client_id,
                   new_client_secret, putLog, putResp, credsOk, account_name,
                   region_raw, region, file0, file, overwrite, zs,
                   credentials_data, postLog, postResp, cleanup, fsErrors>>

Next ==
    \/ AskBaseUrl
    \/ GetResponse
    \/ AskConfigureNow
    \/ AskClientId
    \/ AskClientSecret
    \/ PutResponse
    \/ AskAccountName
    \/ AskRegion
    \/ AskOverwrite
    \/ CaptureEntry
    \/ Announce
    \/ Poll
    \/ CloseResponder
    \/ LibraryStoresCredentials
    \/ ReadCredentials
    \/ PostResponse
    \/ AskCleanup
    \/ Interrupt
    \/ InterruptWait
    \/ InterruptPost

Spec == Init /\ [][Next]_vars

(***************************************************************************)
(* Properties                                                              *)
(***************************************************************************)
Exited == pc = "exited"

Printed(p) == Cardinality({i \in 1..Len(prompts) : prompts[i] = p})

\* the POST raised RequestException: no response, or a 4xx/5xx status
PostRaised ==
    \/ postResp.kind = "error"
    \/ postResp.kind = "response" /\ postResp.status \in 400..599

\* the POST returned a response that raise_for_status accepts
PostReturned == postResp.kind = "response" /\ postResp.status \notin 400..599

\* C1: once the capture phase has created the responder, no run ends with it
\* still open: it is closed on normal detection of the file and on a user
\* interrupt at any moment after its creation.
C1_ResponderClosedOnExit == Exited => zs # "open"

\* C2: a run in which a KeyboardInterrupt was delivered (at a prompt, during
\* the GET or the PUT, in the capture phase, during the POST or at the delete
\* prompt) ends with exit code 0.
C2_InterruptExitsZero == (Exited /\ interrupts # {}) => exitCode = 0

\* C2 witness: the POST failed, the delete prompt was interrupted, the run ended
C2_Witness ==
    Exited /\ "cleanup" \in interrupts /\ postResp.kind = "response"
           /\ postResp.status = 404

\* C3 as stated: a POST that fails (network error or a status outside 2xx) ends
\* the run with a non-zero exit code and one that succeeds (2xx) with 0,
\* whatever happens at the delete prompt.
C3_Original ==
    (Exited /\ postLog # <<>>) =>
        /\ (postResp.kind = "error"
              \/ (postResp.kind = "response" /\ postResp.status \notin 200..299))
            => exitCode # 0
        /\ (postResp.kind = "response" /\ postResp.status \in 200..299)
            => exitCode = 0

\* C3 amended: a POST that raises (network error or a 4xx/5xx status) ends the
\* run with exit code 1 unless the delete prompt is interrupted, and then with
\* 0; a POST that returns any other status ends the run with exit code 0.
C3_ExitReflectsRegistration ==
    (Exited /\ postLog # <<>>) =>
        /\ (PostRaised /\ "cleanup" \notin interrupts) => exitCode = 1
        /\ (PostRaised /\ "cleanup" \in interrupts) => exitCode = 0
        /\ PostReturned => exitCode = 0

\* C3 witness: the POST got a 404, the delete prompt was answered, the run ended
C3_Witness ==
    Exited /\ postResp.kind = "response" /\ postResp.status = 404
           /\ cleanup # Unbound /\ exitCode = 1

\* C4 as stated: in a run that sent the POST the delete prompt is printed
\* exactly once, after the POST call, and the file is deleted if and only if the
\* answer is 'y'.
C4_Original ==
    /\ Printed("cleanup") <= 1
    /\ Printed("cleanup") = 1 => (postLog # <<>> /\ pc # "post")
    /\ (Exited /\ postLog # <<>>) =>
        /\ Printed("cleanup") = 1
        /\ file = "absent" <=> cleanup = "y"

\* C4 amended: in a run that sent the POST the delete prompt is printed exactly
\* once, after the POST call has ended; the file is deleted only if the answer
\* is 'y' (in either case), and is deleted whenever the answer is 'y' and the
\* unlink does not fail with an OS error.
C4_DeletePromptOnce ==
    /\ Printed("cleanup") <= 1
    /\ Printed("cleanup") = 1 => (postLog # <<>> /\ pc # "post")
    /\ (postLog # <<>> /\ ~Exited) => file # "absent"
    /\ (Exited /\ postLog # <<>>) =>
        /\ Printed("cleanup") = 1
        /\ file = "absent" => cleanup = "y"
        /\ (cleanup = "y" /\ "final_unlink" \notin fsErrors) => file = "absent"

\* C4 witness: the POST failed, the prompt was answered 'y', the file is gone
C4_Witness ==
    Exited /\ PostRaised /\ cleanup = "y" /\ file = "absent"
           /\ Printed("cleanup") = 1

\* C5: a PUT is sent only if the GET returned a body lacking a truthy client_id
\* or client_secret, the answer to "configure now" was 'y' and both entered
\* values are non-empty; a GET with both fields truthy sends no PUT and returns
\* True; declining, or leaving a value empty, sends no PUT and returns False.
C5_PutOnlyWhenConfigured ==
    /\ putLog # <<>> =>
        /\ getResp.kind = "response" /\ getResp.status < 400
        /\ ~("client_id" \in DOMAIN data /\ data["client_id"] # ""
               /\ "client_secret" \in DOMAIN data /\ data["client_secret"] # "")
        /\ configure_now = "y"
        /\ new_client_id \notin {Unbound, ""}
        /\ new_client_secret \notin {Unbound, ""}
    /\ ("client_id" \in DOMAIN data /\ data["client_id"] # ""
          /\ "client_secret" \in DOMAIN data /\ data["client_secret"] # "")
        => (putLog = <<>> /\ credsOk = "True")
    /\ (configure_now \notin {Unbound, "y"}
          \/ (new_client_secret # Unbound
                /\ (new_client_id = "" \/ new_client_secret = "")))
        => (putLog = <<>> /\ credsOk = "False")

\* C5 witness: the PUT is in flight
C5_Witness == pc = "put" /\ Len(putLog) = 1 /\ configure_now = "y"

\* the server lacks credentials, the user accepted and entered both values
C6_Accepted ==
    /\ getResp.kind = "response"
    /\ ~(Truthy(data, "client_id") /\ Truthy(data, "client_secret"))
    /\ configure_now = "y"
    /\ new_client_id \notin {Unbound, ""}
    /\ new_client_secret \notin {Unbound, ""}

\* C6 as stated: with both values entered, one PUT carries exactly the entered
\* pair, and bootstrap returns True only on a 2xx status and False on every
\* other status and on a network error.
C6_Original ==
    /\ Len(putLog) <= 1
    /\ C6_Accepted =>
        /\ Len(putLog) = 1
        /\ putLog[1].payload = [client_id |-> new_client_id,
                                client_secret |-> new_client_secret]
        /\ credsOk = "True" => putResp.status \in 200..299
        /\ (putResp.kind = "error"
              \/ (putResp.kind = "response" /\ putResp.status \notin 200..299))
            => credsOk = "False"

\* C6 amended: with both values entered, exactly one PUT is sent, carrying
\* exactly the entered pair; bootstrap returns True exactly when the PUT gets a
\* response whose status is not 4xx/5xx, and False exactly when it gets no
\* response or a 4xx/5xx status.
C6_PutOnceSuccessUnlessHttpError ==
    /\ Len(putLog) <= 1
    /\ C6_Accepted =>
        /\ Len(putLog) = 1
        /\ putLog[1].payload = [client_id |-> new_client_id,
                                client_secret |-> new_client_secret]
        /\ credsOk = "True"
            <=> (putResp.kind = "response" /\ putResp.status \notin 400..599)
        /\ credsOk = "False"
            <=> (putResp.kind = "error"
                   \/ (putResp.kind = "response" /\ putResp.status \in 400..599))

\* C6 witness: the PUT got 200 and bootstrap returned True
C6_Witness ==
    C6_Accepted /\ putResp.kind = "response" /\ putResp.status = 200
                /\ credsOk = "True"

\* C7: a POST is sent only after bootstrap returned True and a non-empty
\* account name and region were entered; a failed bootstrap ends the run with a
\* non-zero exit code, no further prompt and no POST; an empty account name or
\* region ends it with a non-zero exit code before the capture phase and
\* before any POST.
C7_PostOnlyAfterBootstrapAndInputs ==
    /\ postLog # <<>> =>
        /\ credsOk = "True"
        /\ account_name \notin {Unbound, ""}
        /\ region \notin {<<Unbound>>, <<>>}
    /\ credsOk = "False" =>
        /\ Exited /\ exitCode # 0 /\ postLog = <<>>
        /\ \A i \in 1..Len(prompts) :
              prompts[i] \in {"base_url", "configure_now", "new_client_id",
                              "new_client_secret"}
    /\ (account_name = "" \/ region = <<>>) =>
        /\ Exited /\ exitCode # 0 /\ postLog = <<>>
        /\ zs = "none" /\ file = file0 /\ "capture_entry" \notin interrupts

\* C7 witness: an empty region was entered and the run ended
C7_Witness == Exited /\ region = <<>> /\ account_name = "acct" /\ exitCode = 1

\* C8: when the file exists and the overwrite prompt is answered with anything
\* but 'y', the responder is never started, the file is unchanged until the
\* delete prompt is answered and the POST carries its parsed content; when no
\* file exists the capture phase is entered without the overwrite prompt.
C8_ReuseSkipsCapture ==
    /\ overwrite \notin {Unbound, "y"} =>
        /\ file0 # "absent"
        /\ zs = "none"
        /\ cleanup = Unbound => file = file0
        /\ postLog # <<>> =>
              postLog[1].payload.blob_content = JsonLoad(file0).value
    /\ file0 = "absent" =>
        /\ overwrite = Unbound /\ Printed("overwrite") = 0
        /\ region \notin {<<Unbound>>, <<>>} =>
              (pc = "capture_entry" \/ zs # "none" \/ "capture_entry" \in interrupts)

\* C8 witness: the existing file was kept and the POST has been sent
C8_Witness ==
    overwrite = "n" /\ file0 = "{A}" /\ Len(postLog) = 1 /\ zs = "none"

\* C9 as stated: every failed filesystem operation on the credential file (the
\* stale-file unlink, the read or parse, the unlink at the delete prompt) ends
\* the run with a non-zero exit code, the first before the responder is started.
C9_Original ==
    fsErrors # {} =>
        /\ Exited /\ exitCode # 0
        /\ "stale_unlink" \in fsErrors => zs = "none"

\* C9 amended: a failed stale-file unlink ends the run with a non-zero exit code
\* before the responder is started, and a failed read or parse ends it with a
\* non-zero exit code before any POST; a failed unlink at the delete prompt
\* leaves the file and does not change the exit code, which is 1 if the POST
\* raised and 0 otherwise.
C9_FsErrors ==
    /\ "stale_unlink" \in fsErrors => (Exited /\ exitCode # 0 /\ zs = "none")
    /\ "read" \in fsErrors => (Exited /\ exitCode # 0 /\ postLog = <<>>)
    /\ "final_unlink" \in fsErrors =>
        /\ Exited /\ file # "absent"
        /\ exitCode = IF PostRaised THEN 1 ELSE 0

\* C9 witness: the stale file could not be removed
C9_Witness == "stale_unlink" \in fsErrors /\ overwrite = "y" /\ Exited

\* C10 as stated: the region of every POST is the upper-cased input and is two
\* letters long.
C10_Original ==
    postLog # <<>> =>
        LET r == postLog[1].payload.region
        IN  /\ Len(r) = Len(region_raw)
            /\ \A i \in 1..Len(r) :
                  r[i] = (IF region_raw[i] = "u" THEN "U" ELSE region_raw[i])
            /\ Len(r) = 2
            /\ \A i \in 1..Len(r) : r[i] \in {"U", "S"}

\* C10 amended: the region of every POST is non-empty and is the upper-cased
\* input; its length and its characters are not checked.
C10_RegionUpperNonEmpty ==
    postLog # <<>> =>
        LET r == postLog[1].payload.region
        IN  /\ r # <<>>
            /\ Len(r) = Len(region_raw)
            /\ \A i \in 1..Len(r) :
                  r[i] = (IF region_raw[i] = "u" THEN "U" ELSE region_raw[i])

\* C10 witness: "uS" was entered and the POST has been sent
C10_Witness ==
    Len(postLog) = 1 /\ region_raw = <<"u", "S">>
                     /\ postLog[1].payload.region = <<"U", "S">>

====
